---- MODULE Spec2Model ----
(***************************************************************************)
(* Converge-NPS Smartsheet import driver (src/smartsheet-import.py).       *)
(* One run of main(): login, strategy choice, then either the single       *)
(* "all" import or the per-category loop with its pause.  The backend is   *)
(* the environment: every answer it can give to a request is drawn from a  *)
(* bounded set.                                                            *)
(***************************************************************************)
EXTENDS Integers, Sequences, FiniteSets, TLC

VARIABLES
    pc,           \* position of main()
    response,     \* get_admin_token's local `response` (a login answer in hand)
    token,        \* main's `token`
    choice,       \* main's `choice`
    idx,          \* position of the for loop in data_types (1-based)
    success,      \* main's `success`
    all_success,  \* main's `all_success`
    exitCode,     \* process exit status (0 unless sys.exit(1) ran)
    log,          \* history: every requests.post and time.sleep, in order
    resps,        \* history: the backend's answer to each import call
    results,      \* history: the value each import call returned to main
    call,         \* one call of import_data / import_all taken alone
    db,           \* setup-admin.py: the committed tables
    adm           \* setup-admin.py: update_user_role's position and transaction

mainVars == <<pc, response, token, choice, idx, success, all_success,
              exitCode, log, resps, results>>

vars == <<pc, response, token, choice, idx, success, all_success, exitCode,
          log, resps, results, call, db, adm>>

----------------------------------------------------------------------------
(* Bounds *)

\* largest row count the backend reports in "failed"
MaxFailed == 1

----------------------------------------------------------------------------
(* Program constants *)

\* the status both callers test for
HTTP_OK == 200

\* statuses the backend answers with when it refuses or fails (401, 500)
ErrorStatuses == {401, 500}

\* Python's None, for a token
None == "None"

\* the timeout argument of the requests.post calls: none is passed, and
\* requests then waits for the answer without limit
PostTimeout == "None"

data_types == <<"attendees", "sessions", "projects", "partners">>

\* what input().strip() can give: the two menu entries and anything else
Choices == {"1", "2", "3"}

----------------------------------------------------------------------------
(* Backend answers to POST /auth/login *)

\* value of an "accessToken" field: missing, present but empty (""), or a
\* token; the backend's top-level and nested tokens are told apart by name
TopVals == {"absent", "empty", "tokA"}
NestedVals == {"absent", "empty", "tokB"}

LoginResp(f, s, b, t, d, n) ==
    [fate |-> f, status |-> s, body |-> b, top |-> t, data |-> d, nested |-> n]

\* fate: the call answers, raises (connection error) or never answers.
\* body of an answer: not JSON, a JSON list, or a JSON object ("dict") with
\* top-level accessToken `top` and a "data" member that is missing, null or
\* an object with accessToken `nested`.
LoginResponses ==
    {LoginResp("raise", 0, "none", "absent", "absent", "absent"),
     LoginResp("hang", 0, "none", "absent", "absent", "absent")}
    \cup {LoginResp("answer", s, "none", "absent", "absent", "absent") :
            s \in ErrorStatuses}
    \cup {LoginResp("answer", s, "dict", "tokA", "absent", "absent") :
            s \in ErrorStatuses}
    \cup {LoginResp("answer", HTTP_OK, b, "absent", "absent", "absent") :
            b \in {"notjson", "list"}}
    \cup {LoginResp("answer", HTTP_OK, "dict", t, d, "absent") :
            t \in TopVals, d \in {"absent", "null"}}
    \cup {LoginResp("answer", HTTP_OK, "dict", t, "dict", n) :
            t \in TopVals, n \in NestedVals}

NoResponse == LoginResp("none", 0, "none", "absent", "absent", "absent")

\* Python truthiness of an accessToken value
Truthy(v) == v \notin {"absent", "empty"}

\* get_admin_token with the nested shape never consulted
get_admin_token_TopOnly(r) ==
    IF r.fate = "answer" /\ r.status = HTTP_OK /\ r.body = "dict" /\ Truthy(r.top)
    THEN r.top ELSE None

\* get_admin_token with the two shapes tried in the other order
get_admin_token_NestedFirst(r) ==
    IF r.fate # "answer" THEN None
    ELSE IF r.status # HTTP_OK THEN None
    ELSE IF r.body # "dict" THEN None
    ELSE IF r.data = "dict" /\ Truthy(r.nested) THEN r.nested
    ELSE IF Truthy(r.top) THEN r.top
    ELSE None

\* get_admin_token: the value returned for the login answer r
get_admin_token(r) ==
    IF r.fate # "answer" THEN None                \* requests.post raised
    ELSE IF r.status # HTTP_OK THEN None          \* "Login failed"
    ELSE IF r.body # "dict" THEN None             \* json() / .get raised
    ELSE IF Truthy(r.top) THEN r.top              \* a or b: a is truthy
    ELSE IF r.data = "absent" THEN None           \* {}.get("accessToken")
    ELSE IF r.data # "dict" THEN None             \* None.get raised
    ELSE IF Truthy(r.nested) THEN r.nested
    ELSE None                                     \* "No access token"

----------------------------------------------------------------------------
(* Backend answers to POST /admin/smartsheet/import/{data_type | all} *)

\* a member of the "data" object: missing, not a number, or a number
Absent == [k |-> "absent", v |-> 0]
BadType == [k |-> "bad", v |-> 0]
Num(n) == [k |-> "int", v |-> n]

FailedVals == {Absent, BadType} \cup {Num(n) : n \in 0..MaxFailed}
UpdatedVals == {Absent, BadType}

ImportResp(f, s, b, fl, up) ==
    [fate |-> f, status |-> s, body |-> b, failed |-> fl, updated |-> up]

\* body of a 200 answer: not JSON, a JSON object without "data", or one
\* whose "data" object has the members `failed` and `updated`
ImportResponses ==
    {ImportResp(f, 0, "none", Absent, Absent) : f \in {"raise", "hang"}}
    \cup {ImportResp("answer", s, "none", Absent, Absent) :
            s \in ErrorStatuses}
    \cup {ImportResp("answer", HTTP_OK, b, Absent, Absent) :
            b \in {"notjson", "nodata"}}
    \cup {ImportResp("answer", HTTP_OK, "data", fl, up) :
            fl \in FailedVals, up \in UpdatedVals}

\* dict.get(key) with no default: a missing member reads as None
GetOr0_NoDefault(m) == IF m.k = "absent" THEN BadType ELSE m

\* dict.get(key, 0) on a member
GetOr0(m) == IF m.k = "absent" THEN Num(0) ELSE m

\* whether `m > 0` raises TypeError
CompareRaises(m) == m.k = "bad"

\* import_data: the boolean returned for the answer r
import_data(r) ==
    IF r.fate # "answer" THEN FALSE                       \* except: return False
    ELSE IF r.status # HTTP_OK THEN FALSE                 \* "Import failed"
    ELSE IF r.body = "notjson" THEN FALSE                 \* json() raised
    ELSE IF CompareRaises(GetOr0(r.updated)) THEN FALSE   \* updated > 0 raised
    ELSE IF CompareRaises(GetOr0(r.failed)) THEN FALSE    \* failed > 0 raised
    ELSE GetOr0(r.failed).v = 0                           \* return failed == 0

\* import_all: the boolean returned for the answer r
import_all(r) ==
    IF r.fate # "answer" THEN FALSE
    ELSE IF r.status # HTTP_OK THEN FALSE
    ELSE IF r.body = "notjson" THEN FALSE
    ELSE TRUE

----------------------------------------------------------------------------
(* One call of import_data / import_all in full: the fields read from the  *)
(* answer, the lines printed, and the exceptions raised and caught          *)

\* how many row errors import_data prints: errors[:5]
ErrorDisplayLimit == 5

\* longest "errors" list the backend sends
MaxErrors == 6

\* the "errors" member: missing, not a list, or a list of n entries of which
\* entry badAt (0: none) is the first that is not an object
ErrList(k, n, b) == [k |-> k, n |-> n, badAt |-> b]
ErrorsVals ==
    {ErrList("absent", 0, 0), ErrList("bad", 0, 0)}
    \cup {e \in {ErrList("list", n, b) : n \in 0..MaxErrors, b \in 0..MaxErrors} :
            e.badAt <= e.n}

ImportedVals == {Absent, Num(1)}
UpdatedFullVals == {Absent, BadType, Num(0), Num(1)}

FullResp(f, s, b, im, up, fl, er) ==
    [fate |-> f, status |-> s, body |-> b, imported |-> im, updated |-> up,
     failed |-> fl, errors |-> er]

\* body of a 200 answer: not JSON, a JSON list, an object without "data",
\* an object whose "data" is null, or an object whose "data" is an object
FullResponses ==
    {FullResp("raise", 0, "none", Absent, Absent, Absent, ErrList("absent", 0, 0))}
    \cup {FullResp("answer", st, "none", Absent, Absent, Absent,
                   ErrList("absent", 0, 0)) : st \in ErrorStatuses}
    \cup {FullResp("answer", HTTP_OK, b, Absent, Absent, Absent,
                   ErrList("absent", 0, 0)) :
            b \in {"notjson", "list", "nodata", "datanull"}}
    \cup {FullResp("answer", HTTP_OK, "data", im, up, fl, er) :
            im \in ImportedVals, up \in UpdatedFullVals,
            fl \in FailedVals, er \in ErrorsVals}

\* locals of import_data not yet assigned
Unset == [k |-> "unset", v |-> 0]
NoResult ==
    [imported |-> Unset, updated |-> Unset, failed |-> Unset,
     errors |-> ErrList("unset", 0, 0)]

\* result.get("errors", [])
GetOrEmpty(e) == IF e.k = "absent" THEN ErrList("list", 0, 0) ELSE e

Min(a, b) == IF a < b THEN a ELSE b

\* n printed "  Row r: message" warnings
RowLines(n) == [i \in 1..n |-> "warning:row"]

\* the try block ends by return (exc = "none") or by raising exc
Returns(v, res, out) == [exc |-> "none", ret |-> v, result |-> res, printed |-> out]
Raises(e, res, out) == [exc |-> e, ret |-> FALSE, result |-> res, printed |-> out]

\* the try block of import_data on the answer r
import_data_try(r) ==
    LET out0 == <<"info:importing">> IN
    IF r.fate = "raise" THEN Raises("ConnectionError", NoResult, out0)
    ELSE IF r.status # HTTP_OK
    THEN Returns(FALSE, NoResult, out0 \o <<"error:failed", "error:response">>)
    ELSE IF r.body = "notjson" THEN Raises("ValueError", NoResult, out0)
    ELSE IF r.body \in {"list", "datanull"}
    THEN Raises("AttributeError", NoResult, out0)
    ELSE
    LET res == [imported |-> GetOr0(r.imported),
                updated |-> GetOr0(r.updated),
                failed |-> GetOr0(r.failed),
                errors |-> GetOrEmpty(r.errors)]
        out1 == out0 \o <<"success:imported">>
    IN
    IF CompareRaises(res.updated) THEN Raises("TypeError", res, out1)
    ELSE
    LET out2 == IF res.updated.v > 0 THEN out1 \o <<"info:updated">> ELSE out1 IN
    IF CompareRaises(res.failed) THEN Raises("TypeError", res, out2)
    ELSE IF res.failed.v > 0
    THEN LET out3 == out2 \o <<"warning:failed">>
             shown == Min(res.errors.n, ErrorDisplayLimit)
         IN IF res.errors.k = "bad" THEN Raises("TypeError", res, out3)
            ELSE IF res.errors.badAt \in 1..shown
            THEN Raises("AttributeError", res,
                        out3 \o RowLines(res.errors.badAt - 1))
            ELSE Returns(res.failed.v = 0, res, out3 \o RowLines(shown))
    ELSE Returns(res.failed.v = 0, res, out2)

\* the try block of import_all on the answer r
import_all_try(r) ==
    LET out0 == <<"info:importing">> IN
    IF r.fate = "raise" THEN Raises("ConnectionError", NoResult, out0)
    ELSE IF r.status # HTTP_OK
    THEN Returns(FALSE, NoResult, out0 \o <<"error:failed", "error:response">>)
    ELSE IF r.body = "notjson" THEN Raises("ValueError", NoResult, out0)
    ELSE IF r.body = "list" THEN Raises("AttributeError", NoResult, out0)
    ELSE Returns(TRUE, NoResult, out0 \o <<"success:imported", "info:summary">>)

\* an except clause that names only the requests errors
Catches_RequestErrorsOnly(e) == e = "ConnectionError"

\* `except Exception`: every exception class the try blocks raise derives
\* from Exception
Catches(e) == e \in {"ConnectionError", "ValueError", "AttributeError", "TypeError"}

\* a whole call: the try block, then the except clause when it raised
Handled(fn, r, t) ==
    IF t.exc = "none"
    THEN [pc |-> "returned", fn |-> fn, resp |-> r, ret |-> t.ret,
          result |-> t.result, printed |-> t.printed]
    ELSE IF Catches(t.exc)
    THEN [pc |-> "returned", fn |-> fn, resp |-> r, ret |-> FALSE,
          result |-> t.result, printed |-> t.printed \o <<"error:exception">>]
    ELSE [pc |-> "escaped", fn |-> fn, resp |-> r, ret |-> FALSE,
          result |-> t.result, printed |-> t.printed]

\* idle values of the parts a run of main() does not touch
NoCall ==
    [pc |-> "idle", fn |-> "none",
     resp |-> FullResp("none", 0, "none", Absent, Absent, Absent,
                       ErrList("absent", 0, 0)),
     ret |-> FALSE, result |-> NoResult, printed |-> <<>>]
NoDb == [profile |-> FALSE, roles |-> <<>>, history |-> 0]
NoAdm ==
    [pc |-> "idle", run |-> 0, ret |-> FALSE, tx |-> NoDb, committed |-> FALSE,
     before |-> NoDb, runs |-> <<>>]

----------------------------------------------------------------------------
(* main() *)

\* log entries: a requests.post to an endpoint, or a time.sleep(1)
Post(url, bearer) == [ev |-> "post", url |-> url, bearer |-> bearer]
Pause == [ev |-> "sleep", url |-> "", bearer |-> ""]

\* a call that is never answered: with no timeout the caller stays blocked
\* in requests.post; with one, requests raises and the except branch runs
Blocks(r) == r.fate = "hang" /\ PostTimeout = "None"

MainInit ==
    /\ pc = "Idle"
    /\ response = NoResponse
    /\ token = None
    /\ choice = ""
    /\ idx = 0
    /\ success = FALSE
    /\ all_success = FALSE
    /\ exitCode = 0
    /\ log = <<>>
    /\ resps = <<>>
    /\ results = <<>>

\* one run of main(); the single-call and setup-admin parts stay idle
Init ==
    /\ MainInit
    /\ call = NoCall
    /\ db = NoDb
    /\ adm = NoAdm

\* get_admin_token: requests.post(.../auth/login)
SendLogin ==
    /\ pc = "Idle"
    /\ UNCHANGED <<call, db, adm>>
    /\ pc' = "Authenticating"
    /\ log' = Append(log, Post("login", ""))
    /\ UNCHANGED <<response, token, choice, idx, success, all_success,
                   exitCode, resps, results>>

\* the backend's answer to the login call reaches get_admin_token
RecvLogin(r) ==
    /\ pc = "Authenticating"
    /\ UNCHANGED <<call, db, adm>>
    /\ IF Blocks(r)
       THEN pc' = "Suspended" /\ UNCHANGED response
       ELSE pc' = "AuthReturned" /\ response' = r
    /\ UNCHANGED <<token, choice, idx, success, all_success, exitCode,
                   log, resps, results>>

\* the token test of main dropped: a failed login is not noticed
NotToken_Never(t) == FALSE

\* `if not token:` of main
NotToken(t) == t = None

\* AuthDone where a failed login is tried once more
AuthDone_RetryOnce ==
    /\ pc = "AuthReturned"
    /\ UNCHANGED <<call, db, adm>>
    /\ token' = get_admin_token(response)
    /\ response' = NoResponse
    /\ IF NotToken(token')
       THEN IF Len(log) < 2
            THEN pc' = "Idle" /\ UNCHANGED exitCode
            ELSE pc' = "AuthFailed" /\ exitCode' = 1
       ELSE pc' = "StrategySelected" /\ UNCHANGED exitCode
    /\ UNCHANGED <<choice, idx, success, all_success, log, resps, results>>

\* get_admin_token returns; main tests the token
AuthDone ==
    /\ pc = "AuthReturned"
    /\ UNCHANGED <<call, db, adm>>
    /\ token' = get_admin_token(response)
    /\ response' = NoResponse
    /\ IF NotToken(token')
       THEN pc' = "AuthFailed" /\ exitCode' = 1
       ELSE pc' = "StrategySelected" /\ UNCHANGED exitCode
    /\ UNCHANGED <<choice, idx, success, all_success, log, resps, results>>

\* Choose where any answer other than "1" starts the per-category loop
Choose_ElseSequential(c) ==
    /\ pc = "StrategySelected"
    /\ UNCHANGED <<call, db, adm>>
    /\ choice' = c
    /\ IF c = "1"
       THEN pc' = "Atomic" /\ UNCHANGED <<idx, all_success, exitCode>>
       ELSE pc' = "Sequential" /\ idx' = 1 /\ all_success' = TRUE
            /\ UNCHANGED exitCode
    /\ UNCHANGED <<response, token, success, log, resps, results>>

\* choice = input(...).strip() and the if / elif / else on it
Choose(c) ==
    /\ pc = "StrategySelected"
    /\ UNCHANGED <<call, db, adm>>
    /\ choice' = c
    /\ IF c = "1"
       THEN pc' = "Atomic" /\ UNCHANGED <<idx, all_success, exitCode>>
       ELSE IF c = "2"
       THEN pc' = "Sequential" /\ idx' = 1 /\ all_success' = TRUE
            /\ UNCHANGED exitCode
       ELSE pc' = "InvalidChoice" /\ exitCode' = 1
            /\ UNCHANGED <<idx, all_success>>
    /\ UNCHANGED <<response, token, success, log, resps, results>>

\* import_all: requests.post(.../import/all)
SendAll ==
    /\ pc = "Atomic"
    /\ UNCHANGED <<call, db, adm>>
    /\ pc' = "AtomicWait"
    /\ log' = Append(log, Post("all", token))
    /\ UNCHANGED <<response, token, choice, idx, success, all_success,
                   exitCode, resps, results>>

\* RecvAll where a failed "all" import falls back to the per-category loop
RecvAll_Fallback(r) ==
    /\ pc = "AtomicWait"
    /\ UNCHANGED <<call, db, adm>>
    /\ IF Blocks(r)
       THEN pc' = "Suspended"
            /\ UNCHANGED <<success, exitCode, resps, results, idx, all_success>>
       ELSE /\ success' = import_all(r)
            /\ resps' = Append(resps, r)
            /\ results' = Append(results, success')
            /\ IF success'
               THEN pc' = "Done" /\ UNCHANGED <<idx, all_success>>
               ELSE pc' = "Sequential" /\ idx' = 1 /\ all_success' = TRUE
            /\ UNCHANGED exitCode
    /\ UNCHANGED <<response, token, choice, log>>

\* import_all returns; main exits 1 on failure, else falls off the end
RecvAll(r) ==
    /\ pc = "AtomicWait"
    /\ UNCHANGED <<call, db, adm>>
    /\ IF Blocks(r)
       THEN pc' = "Suspended" /\ UNCHANGED <<success, exitCode, resps, results>>
       ELSE /\ success' = import_all(r)
            /\ resps' = Append(resps, r)
            /\ results' = Append(results, success')
            /\ pc' = "Done"
            /\ exitCode' = IF success' THEN 0 ELSE 1
    /\ UNCHANGED <<response, token, choice, idx, all_success, log>>

\* SendImport where the token is dropped once a category has failed
SendImport_TokenLostAfterFailure ==
    /\ pc = "Sequential"
    /\ UNCHANGED <<call, db, adm>>
    /\ idx <= Len(data_types)
    /\ pc' = "SequentialWait"
    /\ log' = Append(log, Post(data_types[idx],
                               IF all_success THEN token ELSE None))
    /\ UNCHANGED <<response, token, choice, idx, success, all_success,
                   exitCode, resps, results>>

\* import_data: requests.post(.../import/{data_type}) for the loop's category
SendImport ==
    /\ pc = "Sequential"
    /\ UNCHANGED <<call, db, adm>>
    /\ idx <= Len(data_types)
    /\ pc' = "SequentialWait"
    /\ log' = Append(log, Post(data_types[idx], token))
    /\ UNCHANGED <<response, token, choice, idx, success, all_success,
                   exitCode, resps, results>>

\* the fold written as an assignment: the last category's result wins
Fold_LastWins(all, s) == s

\* `if not success: all_success = False`
Fold(all, s) == IF ~s THEN FALSE ELSE all

\* RecvImport where the pause is taken only after a successful category
RecvImport_NoPauseOnFailure(r) ==
    /\ pc = "SequentialWait"
    /\ UNCHANGED <<call, db, adm>>
    /\ IF Blocks(r)
       THEN pc' = "Suspended"
            /\ UNCHANGED <<success, all_success, resps, results, idx>>
       ELSE /\ success' = import_data(r)
            /\ all_success' = Fold(all_success, success')
            /\ resps' = Append(resps, r)
            /\ results' = Append(results, success')
            /\ IF success'
               THEN pc' = "SequentialPause" /\ UNCHANGED idx
               ELSE pc' = "Sequential" /\ idx' = idx + 1
    /\ UNCHANGED <<response, token, choice, exitCode, log>>

\* import_data returns; main folds the result into all_success
RecvImport(r) ==
    /\ pc = "SequentialWait"
    /\ UNCHANGED <<call, db, adm>>
    /\ IF Blocks(r)
       THEN pc' = "Suspended"
            /\ UNCHANGED <<success, all_success, resps, results>>
       ELSE /\ success' = import_data(r)
            /\ all_success' = Fold(all_success, success')
            /\ resps' = Append(resps, r)
            /\ results' = Append(results, success')
            /\ pc' = "SequentialPause"
    /\ UNCHANGED <<response, token, choice, idx, exitCode, log>>

\* Sleep where a failed category ends the loop
Sleep_BreakOnFailure ==
    /\ pc = "SequentialPause"
    /\ UNCHANGED <<call, db, adm>>
    /\ log' = Append(log, Pause)
    /\ idx' = IF success THEN idx + 1 ELSE Len(data_types) + 1
    /\ pc' = "Sequential"
    /\ UNCHANGED <<response, token, choice, success, all_success, exitCode,
                   resps, results>>

\* time.sleep(1), then the loop moves to the next category
Sleep ==
    /\ pc = "SequentialPause"
    /\ UNCHANGED <<call, db, adm>>
    /\ log' = Append(log, Pause)
    /\ idx' = idx + 1
    /\ pc' = "Sequential"
    /\ UNCHANGED <<response, token, choice, success, all_success, exitCode,
                   resps, results>>

\* the loop is exhausted: the summary is printed and main falls off the end
SeqFinish ==
    /\ pc = "Sequential"
    /\ UNCHANGED <<call, db, adm>>
    /\ idx > Len(data_types)
    /\ pc' = "Done"
    /\ UNCHANGED <<response, token, choice, idx, success, all_success,
                   exitCode, log, resps, results>>

Next ==
    \/ SendLogin
    \/ \E r \in LoginResponses : RecvLogin(r)
    \/ AuthDone
    \/ \E c \in Choices : Choose(c)
    \/ SendAll
    \/ \E r \in ImportResponses : RecvAll(r)
    \/ SendImport
    \/ \E r \in ImportResponses : RecvImport(r)
    \/ Sleep
    \/ SeqFinish

Spec == Init /\ [][Next]_vars

----------------------------------------------------------------------------
(* A single import call, for every answer of FullResponses *)

InitImport ==
    /\ MainInit
    /\ call \in {[NoCall EXCEPT !.pc = "ready", !.resp = r] : r \in FullResponses}
    /\ db = NoDb
    /\ adm = NoAdm

\* import_data(token, data_type) runs to its end on the answer in hand
RunImportData ==
    /\ call.pc = "ready"
    /\ call' = Handled("import_data", call.resp, import_data_try(call.resp))
    /\ UNCHANGED <<mainVars, db, adm>>

\* import_all(token) runs to its end on the answer in hand
RunImportAll ==
    /\ call.pc = "ready"
    /\ call' = Handled("import_all", call.resp, import_all_try(call.resp))
    /\ UNCHANGED <<mainVars, db, adm>>

NextImport == RunImportData \/ RunImportAll

SpecImport == InitImport /\ [][NextImport]_vars

\* the two models of import_data / import_all agree: the boolean the full
\* call returns is the one main's step uses for the same answer
ImportModelsAgree ==
    call.pc = "returned" =>
        LET r == ImportResp(call.resp.fate, call.resp.status,
                            IF call.resp.body \in {"list", "datanull"}
                            THEN "notjson" ELSE call.resp.body,
                            call.resp.failed, call.resp.updated)
        IN IF call.fn = "import_data"
           THEN call.ret = import_data(r)
           ELSE call.resp.body = "datanull" \/ call.ret = import_all(r)

----------------------------------------------------------------------------
(* setup-admin.py: update_user_role() against the database *)

\* most user_roles rows in the table at the start
MaxRows == 2

\* most user_role_history rows of the user at the start
MaxHistory == 1

\* how many times the script is run in a row
MaxRuns == 2

\* the user with USER_EMAIL and another user
TheUser == "u1"
Users == {"u1", "u2"}
Roles == {"admin", "participant"}

RoleRow(u, ro) == [user_id |-> u, role |-> ro]
RoleRows == {RoleRow(u, ro) : u \in Users, ro \in Roles}

\* the committed tables: whether the profile with USER_EMAIL exists, the
\* rows of user_roles, and the number of user_role_history rows of the user;
\* without the profile there is no user id and so no row of the user
DbStates ==
    {d \in [profile : BOOLEAN,
            roles : UNION {[1..n -> RoleRows] : n \in 0..MaxRows},
            history : 0..MaxHistory] :
        d.profile \/ (d.history = 0 /\ \A i \in 1..Len(d.roles) : d.roles[i].user_id # TheUser)}

\* SELECT role FROM user_roles WHERE user_id = u AND role = 'admin'
HasAdminRow(rows, u) ==
    \E i \in 1..Len(rows) : rows[i] = RoleRow(u, "admin")

\* UPDATE user_roles SET role = 'admin' WHERE user_id = u
SetAdmin(rows, u) ==
    [i \in 1..Len(rows) |->
        IF rows[i].user_id = u THEN RoleRow(u, "admin") ELSE rows[i]]

InitAdmin ==
    /\ MainInit
    /\ call = NoCall
    /\ db \in DbStates
    /\ adm = [NoAdm EXCEPT !.pc = "connect", !.run = 1, !.tx = db, !.before = db]

\* update_user_role returns v; an open transaction is dropped with the
\* connection, so only what was committed stays in db
Returned(v) ==
    [adm EXCEPT !.pc = "returned", !.ret = v, !.tx = db,
                !.runs = Append(adm.runs,
                    [ret |-> v, before |-> adm.before, after |-> db,
                     committed |-> adm.committed])]

\* a statement raised psycopg2.Error: the except clause returns False
Failed == adm' = Returned(FALSE) /\ UNCHANGED db

\* psycopg2.connect(**DB_CONFIG); conn.cursor()
Connect(ok) ==
    /\ adm.pc = "connect"
    /\ IF ok THEN adm' = [adm EXCEPT !.pc = "select_user"] /\ UNCHANGED db
       ELSE Failed
    /\ UNCHANGED <<mainVars, call>>

\* SELECT ... FROM profiles WHERE email = USER_EMAIL; `if not user`
SelectUser(ok) ==
    /\ adm.pc = "select_user"
    /\ IF ~ok THEN Failed
       ELSE IF ~db.profile THEN adm' = Returned(FALSE) /\ UNCHANGED db
       ELSE adm' = [adm EXCEPT !.pc = "select_admin"] /\ UNCHANGED db
    /\ UNCHANGED <<mainVars, call>>

\* SELECT role ... AND role = 'admin'; `if existing_admin: return True`
SelectAdmin(ok) ==
    /\ adm.pc = "select_admin"
    /\ IF ~ok THEN Failed
       ELSE IF HasAdminRow(adm.tx.roles, TheUser)
       THEN adm' = Returned(TRUE) /\ UNCHANGED db
       ELSE adm' = [adm EXCEPT !.pc = "update"] /\ UNCHANGED db
    /\ UNCHANGED <<mainVars, call>>

\* UPDATE user_roles SET role = 'admin' WHERE user_id = user_id
UpdateRole(ok) ==
    /\ adm.pc = "update"
    /\ IF ~ok THEN Failed
       ELSE /\ adm' = [adm EXCEPT !.pc = "insert",
                                  !.tx.roles = SetAdmin(adm.tx.roles, TheUser)]
            /\ UNCHANGED db
    /\ UNCHANGED <<mainVars, call>>

\* INSERT INTO user_role_history ... 'Initial admin setup'
InsertHistory(ok) ==
    /\ adm.pc = "insert"
    /\ IF ~ok THEN Failed
       ELSE /\ adm' = [adm EXCEPT !.pc = "commit",
                                  !.tx.history = adm.tx.history + 1]
            /\ UNCHANGED db
    /\ UNCHANGED <<mainVars, call>>

\* conn.commit(): the transaction's rows become the committed tables
Commit(ok) ==
    /\ adm.pc = "commit"
    /\ IF ~ok THEN Failed
       ELSE /\ db' = adm.tx
            /\ adm' = [adm EXCEPT !.pc = "close", !.committed = TRUE]
    /\ UNCHANGED <<mainVars, call>>

\* cursor.close(); conn.close(); return True
Close(ok) ==
    /\ adm.pc = "close"
    /\ adm' = Returned(ok)
    /\ UNCHANGED db
    /\ UNCHANGED <<mainVars, call>>

\* the script is run again on the tables the last run left
Rerun ==
    /\ adm.pc = "returned"
    /\ adm.run < MaxRuns
    /\ adm' = [adm EXCEPT !.pc = "connect", !.run = adm.run + 1, !.tx = db,
                          !.before = db, !.committed = FALSE]
    /\ UNCHANGED db
    /\ UNCHANGED <<mainVars, call>>

NextAdmin ==
    \/ \E ok \in BOOLEAN : Connect(ok)
    \/ \E ok \in BOOLEAN : SelectUser(ok)
    \/ \E ok \in BOOLEAN : SelectAdmin(ok)
    \/ \E ok \in BOOLEAN : UpdateRole(ok)
    \/ \E ok \in BOOLEAN : InsertHistory(ok)
    \/ \E ok \in BOOLEAN : Commit(ok)
    \/ \E ok \in BOOLEAN : Close(ok)
    \/ Rerun

SpecAdmin == InitAdmin /\ [][NextAdmin]_vars

----------------------------------------------------------------------------
(* Vocabulary of the properties *)

IsPrefix(a, b) == Len(a) <= Len(b) /\ \A i \in 1..Len(a) : a[i] = b[i]

Urls(seq) == [i \in 1..Len(seq) |-> seq[i].url]

IsLoginPost(e) == e.ev = "post" /\ e.url = "login"
IsImportPost(e) == e.ev = "post" /\ e.url # "login"

LoginPosts == SelectSeq(log, IsLoginPost)
ImportPosts == SelectSeq(log, IsImportPost)
Pauses == SelectSeq(log, LAMBDA e : e.ev = "sleep")

\* a login answer that carries a token: status 200 and a non-empty
\* accessToken at top level or one level under "data"
CarriesToken(r) ==
    /\ r.fate = "answer"
    /\ r.status = HTTP_OK
    /\ r.body = "dict"
    /\ \/ r.top \in {"tokA", "tokB"}
       \/ r.data = "dict" /\ r.nested \in {"tokA", "tokB"}

\* an import call that failed at category level: an answer other than 200,
\* or an error raised by the call or while its answer was read
CategoryLevelFailed(r) ==
    \/ r.fate = "raise"
    \/ r.fate = "answer" /\ r.status # HTTP_OK
    \/ r.fate = "answer" /\ r.status = HTTP_OK
       /\ (r.body = "notjson" \/ r.failed = BadType \/ r.updated = BadType)

\* the row failures a 200 answer reports (a missing "failed" counts as 0)
ReportedFailed(r) == IF r.failed.k = "int" THEN r.failed.v ELSE 0

\* an import call answered 200 that reports row failures
RowLevelFailed(r) == ~CategoryLevelFailed(r) /\ ReportedFailed(r) > 0

\* an import call answered 200 with failed == 0
CategoryOk(r) == ~CategoryLevelFailed(r) /\ ReportedFailed(r) = 0

\* overallSuccess of the RunOutcome: the flag main reports for the strategy
overallSuccess == IF choice = "1" THEN success ELSE all_success

----------------------------------------------------------------------------
(* Properties *)

\* C1: when authentication fails (the login answer carries no token, or the
\* login call raised), main goes to AuthFailed with a non-zero exit status
\* and no import request in the log, and nothing happens after AuthFailed.
C1_AuthFailureIsFatal ==
    [][ /\ (pc = "AuthReturned" /\ ~CarriesToken(response))
            => (pc' = "AuthFailed" /\ exitCode' # 0 /\ ImportPosts' = <<>>)
        /\ pc = "AuthFailed" => FALSE ]_vars

C1_Witness == pc = "AuthFailed" /\ exitCode = 1 /\ Len(log) = 1

\* C2: in a Sequential run the import requests issued so far are always a
\* prefix of data_types, every answer received is followed by the loop going
\* on, and at Done they are exactly data_types in order, whatever the
\* answers were.
C2_SequentialCallsEachOnce ==
    choice = "2" =>
        /\ IsPrefix(Urls(ImportPosts), data_types)
        /\ Len(resps) <= Len(ImportPosts)
        /\ pc = "Done" => Urls(ImportPosts) = data_types

C2_Witness ==
    /\ pc = "Done" /\ choice = "2"
    /\ Urls(ImportPosts) = data_types
    /\ resps[1].fate = "raise"
    /\ resps[2].fate = "answer" /\ resps[2].status = 500
    /\ RowLevelFailed(resps[3])
    /\ CategoryOk(resps[4])

\* C3: at the end of a run the exit status is non-zero exactly when
\* authentication failed or overallSuccess is false.
C3_ExitReflectsOutcome ==
    pc \in {"AuthFailed", "Done"} =>
        (exitCode # 0 <=> (pc = "AuthFailed" \/ ~overallSuccess))

\* C4: at the end of a Sequential run all_success is true iff every
\* category's call was answered 200 with failed == 0, wherever in the order
\* the failures were.
C4_AllSuccessIsConjunction ==
    (pc = "Done" /\ choice = "2") =>
        /\ Len(resps) = Len(data_types)
        /\ all_success <=> \A i \in 1..Len(resps) : CategoryOk(resps[i])

C4_Witness ==
    /\ pc = "Done" /\ choice = "2"
    /\ ~all_success
    /\ ~CategoryOk(resps[1])
    /\ \A i \in 2..Len(resps) : CategoryOk(resps[i])

\* C5: an Atomic run issues at most one import request, to "all"; when that
\* request is answered non-200 or raises, the run is Done with
\* overallSuccess false; no per-category request is ever in the log.
C5_AtomicSingleCall ==
    choice = "1" =>
        /\ IsPrefix(Urls(ImportPosts), <<"all">>)
        /\ pc = "Done" => Urls(ImportPosts) = <<"all">>
        /\ (Len(resps) = 1 /\ (resps[1].fate = "raise" \/ resps[1].status # HTTP_OK))
              => (pc = "Done" /\ ~overallSuccess)

C5_Witness ==
    /\ choice = "1" /\ pc = "Done"
    /\ resps[1].fate = "answer" /\ resps[1].status = 500
    /\ Urls(ImportPosts) = <<"all">>

\* C6: get_admin_token returns a token iff the login answer is a 200 whose
\* body carries a token at top level or nested under "data"; the token
\* returned is one the body carries; every other answer gives None.
C6_TokenIffCarried ==
    [][ pc = "AuthReturned" =>
          /\ (token' # None) <=> CarriesToken(response)
          /\ (token' # None) => token' \in {response.top, response.nested} ]_vars

C6_Witness == pc = "StrategySelected" /\ token = "tokB"

\* C7: no network call leaves the run suspended: every call that is never
\* answered is ended by a timeout, so the run goes on to a terminal state.
C7_NeverSuspended == pc # "Suspended"

\* C8: at most one login request is ever issued, one has been issued as soon
\* as the run has started, and it is the first request of the log, before
\* every import request.
C8_SingleLoginFirst ==
    /\ Len(LoginPosts) <= 1
    /\ pc # "Idle" => Len(LoginPosts) = 1
    /\ log # <<>> => IsLoginPost(log[1])

C8_Witness ==
    /\ pc = "Done" /\ choice = "2"
    /\ Len(LoginPosts) = 1 /\ Len(ImportPosts) = Len(data_types)

\* C9: a finished Sequential run has one recorded result per category, in
\* order, and the value recorded for a category-level failure differs from
\* the value recorded for a call that reports row failures.
C9_SentinelDistinct ==
    (pc = "Done" /\ choice = "2") =>
        /\ Len(results) = Len(data_types)
        /\ \A i, j \in 1..Len(results) :
              (CategoryLevelFailed(resps[i]) /\ RowLevelFailed(resps[j]))
                  => results[i] # results[j]

\* C10: in a Sequential run every import request but the first directly
\* follows a pause, every pause directly follows an import request, and at
\* Done a pause has been taken after each of the calls, failed or not.
C10_PauseAfterEveryCall ==
    choice = "2" =>
        /\ \A i \in 3..Len(log) :
              /\ log[i].ev = "post" => log[i-1] = Pause
              /\ log[i] = Pause => log[i-1].ev = "post"
        /\ Len(Pauses) <= Len(resps) /\ Len(resps) <= Len(Pauses) + 1
        /\ pc = "Sequential" => Len(Pauses) = Len(resps)
        /\ pc = "Done" => Len(Pauses) = Len(data_types)

C10_Witness ==
    /\ pc = "Done" /\ choice = "2"
    /\ results = <<FALSE, TRUE, FALSE, TRUE>>
    /\ Len(Pauses) = Len(data_types)

\* the failure kind of an import answer: a 401/403 answer, another non-200
\* answer, or an error raised by the call; "none" for a 200 answer
FailureKind(r) ==
    IF r.fate = "raise" THEN "NetworkError"
    ELSE IF r.fate = "answer" /\ r.status \in {401, 403} THEN "AuthRejected"
    ELSE IF r.fate = "answer" /\ r.status # HTTP_OK THEN "BackendError"
    ELSE "none"

\* C12: the outcomes of two import calls that failed in different kinds
\* (AuthRejected, BackendError, NetworkError) are different values.
C12_FailureKindsDistinct ==
    \A i, j \in 1..Len(results) :
        ( /\ FailureKind(resps[i]) # "none"
          /\ FailureKind(resps[j]) # "none"
          /\ FailureKind(resps[i]) # FailureKind(resps[j]) )
            => results[i] # results[j]

\* a 200 login answer whose body is a JSON object
Is200Object(r) == r.fate = "answer" /\ r.status = HTTP_OK /\ r.body = "dict"

\* C14 as stated: whenever the top-level token field is present in a 200
\* login answer it wins, so the nested token is returned only when the
\* top-level field is absent.
C14_NestedOnlyWhenTopAbsent ==
    [][ (pc = "AuthReturned" /\ Is200Object(response) /\ response.top # "absent")
          => token' = (IF Truthy(response.top) THEN response.top ELSE None) ]_vars

\* C14 (amended): when a 200 login answer carries a non-empty token at top
\* level, that token is returned whatever the nested shape holds; the nested
\* token is returned exactly when the top-level field is absent or empty and
\* "data" is an object with a non-empty token.
C14_FirstNonEmptyWins ==
    [][ (pc = "AuthReturned" /\ Is200Object(response)) =>
          /\ Truthy(response.top) => token' = response.top
          /\ (token' = "tokB") <=>
                ( /\ response.top \in {"absent", "empty"}
                  /\ response.data = "dict"
                  /\ response.nested = "tokB" ) ]_vars

C14_Witness ==
    /\ pc = "AuthReturned"
    /\ Is200Object(response)
    /\ response.top = "tokA" /\ response.data = "dict" /\ response.nested = "tokB"

\* C17: once obtained the token never changes, and every import request in
\* the log ("all" or per-category) carries it as its bearer token, also
\* after earlier requests failed.
C17_TokenReadOnly ==
    /\ [](\A i \in 1..Len(ImportPosts) :
             ImportPosts[i].bearer = token /\ token \in {"tokA", "tokB"})
    /\ [][token # None => token' = token]_vars

C17_Witness ==
    /\ pc = "Done" /\ choice = "2"
    /\ results = <<FALSE, FALSE, TRUE, TRUE>>
    /\ FailureKind(resps[1]) = "AuthRejected"
    /\ \A i \in 1..Len(ImportPosts) : ImportPosts[i].bearer = "tokB"

\* C18: when the choice is neither "1" nor "2", main ends in InvalidChoice
\* with a non-zero exit status and no import request in the log.
C18_InvalidChoiceExits ==
    (choice \notin {"", "1", "2"}) =>
        /\ pc = "InvalidChoice"
        /\ exitCode # 0
        /\ ImportPosts = <<>>

C18_Witness ==
    pc = "InvalidChoice" /\ choice = "3" /\ token = "tokA" /\ exitCode = 1

----------------------------------------------------------------------------
(* Properties of a single import call (SpecImport) *)

\* import_data has returned for a 200 answer whose body is a JSON object
ReadObject ==
    /\ call.pc = "returned" /\ call.fn = "import_data"
    /\ call.resp.fate = "answer" /\ call.resp.status = HTTP_OK
    /\ call.resp.body \in {"nodata", "data"}

RowsPrinted == Len(SelectSeq(call.printed, LAMBDA l : l = "warning:row"))

\* C11: for a 200 answer, every member of imported / updated / failed /
\* errors the answer omits (with "data" itself omitted: all of them) reads
\* as 0 or the empty list, and an answer that omits "failed" gives a
\* successful result, failed = 0 and True returned, unless a member that is
\* present is ill-typed.
C11_MissingFieldsDefault ==
    ReadObject =>
        /\ call.resp.imported = Absent => call.result.imported = Num(0)
        /\ call.resp.updated = Absent => call.result.updated = Num(0)
        /\ call.resp.failed = Absent => call.result.failed = Num(0)
        /\ call.resp.errors.k = "absent" => call.result.errors = ErrList("list", 0, 0)
        /\ (call.resp.failed = Absent /\ call.resp.updated # BadType)
              => call.ret = TRUE

C11_Witness ==
    /\ ReadObject
    /\ call.resp.body = "data"
    /\ call.resp.failed = Absent /\ call.resp.updated = Absent
    /\ call.resp.imported = Num(1)
    /\ call.result.failed = Num(0)
    /\ call.ret = TRUE

\* C13: one import_data call prints at most 5 row error lines, and when the
\* answer lists more than 5 errors it also prints a truncation indicator.
C13_BoundedWithTruncation ==
    (call.pc = "returned" /\ call.fn = "import_data") =>
        /\ RowsPrinted <= ErrorDisplayLimit
        /\ (call.resp.errors.k = "list" /\ call.resp.errors.n > ErrorDisplayLimit)
              => \E i \in 1..Len(call.printed) : call.printed[i] = "warning:truncated"

\* C15: whatever the backend does, a call of import_data or import_all ends
\* by returning a boolean; no exception leaves the function.
C15_NeverRaises ==
    /\ call.pc # "escaped"
    /\ call.pc = "returned" => call.ret \in BOOLEAN

C15_Witness ==
    /\ call.pc = "returned" /\ call.fn = "import_data"
    /\ call.resp.status = HTTP_OK /\ call.resp.updated = BadType
    /\ call.ret = FALSE
    /\ call.printed[Len(call.printed)] = "error:exception"

\* C16: in every result import_data reads from a 200 answer, failed == 0
\* implies that errors is empty.
C16_NoFailedNoErrors ==
    (ReadObject /\ call.result.failed = Num(0)) => call.result.errors.n = 0

----------------------------------------------------------------------------
(* Properties of update_user_role (SpecAdmin) *)

\* C19: whenever update_user_role has returned True, the committed
\* user_roles table holds a row giving the user the role admin.
C19_TrueMeansAdmin ==
    (adm.pc = "returned" /\ adm.ret = TRUE) => HasAdminRow(db.roles, TheUser)

\* C20: every run changes the tables all or nothing (either nothing, or the
\* user becomes admin and exactly one history row is added), a run that did
\* not commit changes nothing, and a run that follows a run that returned
\* True writes nothing.
C20_AtomicIdempotent ==
    /\ \A i \in 1..Len(adm.runs) :
          LET run == adm.runs[i] IN
          /\ run.after # run.before =>
                /\ ~HasAdminRow(run.before.roles, TheUser)
                /\ HasAdminRow(run.after.roles, TheUser)
                /\ run.after.history = run.before.history + 1
          /\ ~run.committed => run.after = run.before
    /\ \A i \in 1..(Len(adm.runs) - 1) :
          adm.runs[i].ret = TRUE => adm.runs[i+1].after = adm.runs[i+1].before

====
